---- MODULE Spec2Model ----
(***************************************************************************)
(* Model of the content-verification ledger (ContentVerification.sol) and  *)
(* of the client service that binds a wallet identity to it                *)
(* (BlockchainService).                                                    *)
(***************************************************************************)
EXTENDS Integers, Sequences, FiniteSets, TLC

(***************************************************************************)
(* Bounds of the model.                                                    *)
(***************************************************************************)
\* content hashes are 1..MaxDigest; 0 stands for bytes32(0)
MaxDigest == 2
\* wallet/caller addresses are 1..MaxAddr; 0 stands for address(0)
MaxAddr == 2
\* block.timestamp ranges over 1..MaxTime
MaxTime == 2
\* accountsChanged handlers that may be suspended at the same time
MaxHandlers == 1
\* accountsChanged/chainChanged handlers that may be registered at a time
MaxListeners == 2

ZeroHash == 0
ZeroAddr == 0
Digest == 0..MaxDigest
Addr == 1..MaxAddr

\* uint8 _confidence: the largest value the parameter type holds
Uint8Max == 255
\* require(_confidence <= 100, ...)
MaxConfidence == 100

\* the <<isAuthentic, confidence>> arguments tried at the contract entry
\* point: both ends of the valid confidence range, the first invalid value
\* and a value that does not fit the parameter type
StoreInputs == {<<TRUE, MaxConfidence>>, <<FALSE, 0>>,
                <<TRUE, MaxConfidence + 1>>, <<FALSE, Uint8Max + 1>>}

VARIABLES
  records,      \* mapping(bytes32 => VerificationRecord)
  userRecords,  \* mapping(address => bytes32[])
  events,       \* the RecordStored log, in emission order
  now,          \* block.timestamp of the block being executed
  ret,          \* outcome of the last call of a contract entry point
  mempool,      \* storeRecord transactions sent and not yet included
  \* BlockchainService (one instance per page)
  provider,        \* this.provider: "null", "browser" or "mock"
  signer,          \* this.signer: the address it signs for, ZeroAddr if null
  contract,        \* this.contract: its kind and the signer it is bound to
  currentAccount,  \* this.currentAccount, ZeroAddr if null
  currentNetwork,  \* this.currentNetwork: a chain id or "null"
  isConnected,     \* this.isConnected
  mockMode,        \* this.mockMode
  mockRecords,     \* this.mockData.records, the digests that were seeded
  \* window.ethereum
  hasWallet,       \* whether window.ethereum is there
  walletAccount,   \* the account the wallet exposes, ZeroAddr if none
  walletChain,     \* the chain the wallet is on
  listeners,       \* accountsChanged/chainChanged handlers registered
  \* asynchronous operations of the page that are suspended at an await
  connecting,      \* connectWallet: where it is suspended, and accounts[0]
  handlers,        \* accountsChanged handlers suspended at getSigner()
  calls,           \* storeVerificationRecord, per submitting form
  lookup,          \* getVerificationRecord
  notified,        \* identity of the last accountsChanged notification
                   \* handled while connected and bound, ZeroAddr if none
  \* what the callers of the service and the window see
  bindResult,      \* how the last initializeContract call ended
  estimate,        \* estimateGasCost
  status,          \* what the last getConnectionStatus call returned
  detection,       \* the detection result the form is working on
  emitted          \* walletDisconnected events dispatched for the last
                   \* accountsChanged notification

ledgerVars == <<records, userRecords, events, now>>
svcVars == <<provider, signer, contract, currentAccount, currentNetwork,
             isConnected, mockMode,
             mockRecords>>
walletVars == <<hasWallet, walletAccount, walletChain, listeners>>
asyncVars == <<connecting, handlers, calls, lookup>>
obsVars == <<bindResult, estimate, status, detection, emitted>>
clientVars == <<svcVars, walletVars, asyncVars, notified, obsVars>>
vars == <<records, userRecords, events, now, ret, mempool, clientVars>>

(***************************************************************************)
(* ContentVerification.sol                                                 *)
(***************************************************************************)
\* the value of a mapping slot that was never written
DefaultRecord ==
  [contentHash |-> ZeroHash, isAuthentic |-> FALSE, confidence |-> 0,
   timestamp |-> 0, verifier |-> ZeroAddr, exists |-> FALSE]

\* mutant: the record keeps no trace of who stored it
VerificationRecord_NoVerifier(h, a, c, t, v) ==
  [contentHash |-> h, isAuthentic |-> a, confidence |-> c,
   timestamp |-> t, verifier |-> ZeroAddr, exists |-> TRUE]

VerificationRecord(h, a, c, t, v) ==
  [contentHash |-> h, isAuthentic |-> a, confidence |-> c,
   timestamp |-> t, verifier |-> v, exists |-> TRUE]

RecordStored(h, v, a, c, t) ==
  [contentHash |-> h, verifier |-> v, isAuthentic |-> a, confidence |-> c,
   timestamp |-> t]

NoRevert == "none"
RevertDecode == "abi decoding failed"
RevertEmptyHash == "Content hash cannot be empty"
RevertConfidence == "Confidence must be between 0 and 100"
RevertDuplicate == "Record already exists for this content"

\* mutant: the duplicate check is missing
storeRecordRevert_NoDuplicateCheck(_contentHash, _confidence) ==
  IF _confidence > Uint8Max THEN RevertDecode
  ELSE IF ~(_contentHash # ZeroHash) THEN RevertEmptyHash
  ELSE IF ~(_confidence <= MaxConfidence) THEN RevertConfidence
  ELSE NoRevert

\* mutant: the range check on the confidence is missing
storeRecordRevert_NoRangeCheck(_contentHash, _confidence) ==
  IF _confidence > Uint8Max THEN RevertDecode
  ELSE IF ~(_contentHash # ZeroHash) THEN RevertEmptyHash
  ELSE IF ~(~records[_contentHash].exists) THEN RevertDuplicate
  ELSE NoRevert

\* the require chain of storeRecord, in source order; the first failing
\* check decides the revert reason
storeRecordRevert(_contentHash, _confidence) ==
  IF _confidence > Uint8Max THEN RevertDecode
  ELSE IF ~(_contentHash # ZeroHash) THEN RevertEmptyHash
  ELSE IF ~(_confidence <= MaxConfidence) THEN RevertConfidence
  ELSE IF ~(~records[_contentHash].exists) THEN RevertDuplicate
  ELSE NoRevert

\* mutant: the hash is put in front of the caller's list
push_Front(list, h) == <<h>> \o list

\* userRecords[msg.sender].push(_contentHash)
push(list, h) == Append(list, h)

\* how a call of an entry point ended: success, or the revert reason
Ret(op, ok, reason) == [op |-> op, ok |-> ok, reason |-> reason]

\* storeRecord called by sender (msg.sender); a revert rolls everything back
storeRecord(sender, _contentHash, _isAuthentic, _confidence) ==
  LET reason == storeRecordRevert(_contentHash, _confidence) IN
  IF reason # NoRevert
  THEN /\ ret' = Ret("storeRecord", FALSE, reason)
       /\ UNCHANGED <<records, userRecords, events>>
  ELSE /\ ret' = Ret("storeRecord", TRUE, NoRevert)
       /\ records' = [records EXCEPT ![_contentHash] =
                        VerificationRecord(_contentHash, _isAuthentic,
                                           _confidence, now, sender)]
       /\ userRecords' = [userRecords EXCEPT ![sender] =
                            push(@, _contentHash)]
       /\ events' = Append(events,
                           RecordStored(_contentHash, sender, _isAuthentic,
                                        _confidence, now))

\* mutant: the hash asked for is echoed in the answer
getRecord_EchoHash(_contentHash) ==
  [records[_contentHash] EXCEPT !.contentHash = _contentHash]

\* the view functions: what each returns in the current state
getRecord(_contentHash) == records[_contentHash]
getUserRecords(_userAddress) == userRecords[_userAddress]
getUserRecordCount(_userAddress) == Len(userRecords[_userAddress])
recordExists(_contentHash) == records[_contentHash].exists

\* a call of a view function: it cannot revert and writes no storage
CallView(op) ==
  /\ ret' = Ret(op, TRUE, NoRevert)
  /\ UNCHANGED <<records, userRecords, events>>

\* a new block: block.timestamp advances
NewBlock ==
  /\ now < MaxTime
  /\ now' = now + 1
  /\ UNCHANGED <<records, userRecords, events, ret, mempool>>

NoRet == Ret("none", TRUE, NoRevert)

\* a storeRecord transaction on its way to the contract
Tx(id, from, h, a, c) ==
  [id |-> id, from |-> from, hash |-> h, isAuthentic |-> a, confidence |-> c]

\* the ledger includes a transaction: storeRecord runs to completion with
\* msg.sender = tx.from (execution is serialized, one transaction at a time)
Include(tx) ==
  /\ tx \in mempool
  /\ storeRecord(tx.from, tx.hash, tx.isAuthentic, tx.confidence)
  /\ mempool' = mempool \ {tx}
  /\ UNCHANGED now


(***************************************************************************)
(* BlockchainService, the wallet it talks to and the forms that call it.   *)
(***************************************************************************)
\* the chains the page has a deployed store for
Chains == {"0x7a69", "0xaa36a7"}
\* options.account of enableMockMode: an address no wallet account has
MockAccount == MaxAddr + 1
MockNetwork == "0xaa36a7"
\* the forms that submit: handleTextSubmit and handleImageSubmit
Slots == {"text", "image"}

NullContract == [kind |-> "null", signer |-> ZeroAddr]
\* new ethers.Contract(contractAddress, contractABI, signer)
LiveContract(s) == [kind |-> "live", signer |-> s]
\* the object literal enableMockMode puts in this.contract
MockContract == [kind |-> "mock", signer |-> ZeroAddr]

ErrNotInitialized == "Contract not initialized. Please initialize contract first."
ErrNotConnected == "Wallet not connected. Please connect wallet first."
ErrNoWallet == "MetaMask is not installed."
ErrNoAccounts == "No accounts found. Please unlock MetaMask."
ErrRejected == "ACTION_REJECTED"
ErrInvalidArgument == "INVALID_ARGUMENT"
ErrProvider == "provider error"
ErrTypeError == "TypeError: Cannot read properties of null"

\* a content hash as the caller writes it: with or without the "0x" prefix
ContentHash(prefixed, d) == [prefixed |-> prefixed, digest |-> d]
\* contentHash.startsWith("0x") ? contentHash : "0x" + contentHash, as bytes32
hashBytes32(contentHash) == contentHash.digest

\* confidence arguments of the client are numbers with one decimal digit,
\* written in tenths: 924 is 92.4
ConfUnit == 10
\* mutant: the fraction is cut off
MathRound_Floor(t) == t \div ConfUnit
\* Math.round: to the nearest integer, halves towards +infinity
MathRound(t) == (2 * t + ConfUnit) \div (2 * ConfUnit)

ConnectState(pc, account, error) ==
  [pc |-> pc, account |-> account, error |-> error]
ConnectIdle == ConnectState("idle", ZeroAddr, "none")

\* block: receipt.blockNumber once the transaction is included, 0 before
\* requests: how often the call has turned to its contract object
Call(pc, h, a, c, from, mock, ok, error) ==
  [pc |-> pc, hash |-> h, isAuthentic |-> a, confidence |-> c, from |-> from,
   mock |-> mock, ok |-> ok, error |-> error, block |-> 0, requests |-> 0]
\* the call has asked its contract object for something
Requested(call) == [call EXCEPT !.requests = 1]
IdleCall == Call("idle", ZeroHash, FALSE, 0, ZeroAddr, FALSE, FALSE, "none")

Lookup(pc, h, mock, record, error) ==
  [pc |-> pc, hash |-> h, mock |-> mock, record |-> record, error |-> error]
LookupIdle == Lookup("idle", ZeroHash, FALSE, DefaultRecord, "none")

\* requests: how often the call has asked its contract object for an
\* estimate
\* gasEstimate: what estimateGas answered; feeFrom: the provider object that
\* was asked for the fee data; gasLimit, gasPrice, totalCostWei: the fields
\* of the object returned
Estimate(pc, h, c, mock, ok, error) ==
  [pc |-> pc, hash |-> h, confidence |-> c, mock |-> mock, ok |-> ok,
   error |-> error, requests |-> 0, gasEstimate |-> 0, feeFrom |-> "null",
   gasLimit |-> 0, gasPrice |-> <<0, 0>>, totalCostWei |-> 0]
EstimateIdle == Estimate("idle", ZeroHash, 0, FALSE, FALSE, "none")

\* mutant: the contract object outlives the construction
Construct_KeepsContract ==
  /\ provider' = "null"
  /\ signer' = ZeroAddr
  /\ contract' = contract
  /\ currentAccount' = ZeroAddr
  /\ currentNetwork' = "null"
  /\ isConnected' = FALSE
  /\ mockMode' = FALSE
  /\ mockRecords' = {}

\* what aiDetectionService.detectText/detectImage answered: confidence is a
\* number of [0, 1], written in thousandths
Detection(isAiGenerated, confidence) ==
  [isAiGenerated |-> isAiGenerated, confidence |-> confidence]
NoDetection == Detection(FALSE, 0)

\* nothing was asked yet; seen: the fields of the service when it was asked
NoStatus ==
  [isConnected |-> FALSE, account |-> ZeroAddr, network |-> "null",
   seen |-> <<>>]

\* the constructor of BlockchainService
Construct ==
  /\ provider' = "null"
  /\ signer' = ZeroAddr
  /\ contract' = NullContract
  /\ currentAccount' = ZeroAddr
  /\ currentNetwork' = "null"
  /\ isConnected' = FALSE
  /\ mockMode' = FALSE
  /\ mockRecords' = {}

ClientInit ==
  /\ provider = "null"
  /\ signer = ZeroAddr
  /\ contract = NullContract
  /\ currentAccount = ZeroAddr
  /\ currentNetwork = "null"
  /\ isConnected = FALSE
  /\ mockMode = FALSE
  /\ mockRecords = {}
  /\ hasWallet = TRUE
  /\ walletAccount = 1
  /\ walletChain = "0xaa36a7"
  /\ listeners = 0
  /\ connecting = ConnectIdle
  /\ handlers = 0
  /\ calls = [f \in Slots |-> IdleCall]
  /\ lookup = LookupIdle
  /\ notified = ZeroAddr
  /\ bindResult = "none"
  /\ estimate = EstimateIdle
  /\ emitted = 0
  /\ status = NoStatus
  /\ detection = NoDetection

\* the same page in a browser without a wallet extension
NoWalletInit ==
  /\ provider = "null"
  /\ signer = ZeroAddr
  /\ contract = NullContract
  /\ currentAccount = ZeroAddr
  /\ currentNetwork = "null"
  /\ isConnected = FALSE
  /\ mockMode = FALSE
  /\ mockRecords = {}
  /\ hasWallet = FALSE
  /\ walletAccount = ZeroAddr
  /\ walletChain = "0xaa36a7"
  /\ listeners = 0
  /\ connecting = ConnectIdle
  /\ handlers = 0
  /\ calls = [f \in Slots |-> IdleCall]
  /\ lookup = LookupIdle
  /\ notified = ZeroAddr
  /\ bindResult = "none"
  /\ estimate = EstimateIdle
  /\ emitted = 0
  /\ status = NoStatus
  /\ detection = NoDetection

\* ---- connectWallet ----
\* up to the first await: window.ethereum.request(eth_requestAccounts)
ConnectStart ==
  /\ connecting.pc \in {"idle", "done", "failed"}
  /\ listeners < MaxListeners
  /\ connecting' = IF hasWallet
                   THEN ConnectState("accounts", ZeroAddr, "none")
                   ELSE ConnectState("failed", ZeroAddr, ErrNoWallet)
  /\ notified' = ZeroAddr
  /\ UNCHANGED <<svcVars, walletVars, handlers, calls, lookup>>

\* mutant: the list of accounts is not looked at
ConnectAccounts_NoEmptyCheck ==
  /\ connecting.pc = "accounts"
  /\ connecting' = ConnectState("signer", walletAccount, "none")
  /\ provider' = "browser"
  /\ UNCHANGED <<signer, contract, currentAccount, currentNetwork,
                 isConnected, mockMode,
                 mockRecords, walletVars, handlers, calls, lookup,
                 notified>>

\* the account request resolves: provider set, on to await getSigner()
ConnectAccounts ==
  /\ connecting.pc = "accounts"
  /\ IF walletAccount = ZeroAddr
     THEN /\ connecting' = ConnectState("failed", ZeroAddr, ErrNoAccounts)
          /\ UNCHANGED provider
     ELSE /\ connecting' = ConnectState("signer", walletAccount, "none")
          /\ provider' = "browser"
  /\ UNCHANGED <<signer, contract, currentAccount, currentNetwork,
                 isConnected, mockMode,
                 mockRecords, walletVars, handlers, calls, lookup,
                 notified>>

\* the account request is rejected by the user: connectWallet rethrows
ConnectAccountsRejected ==
  /\ connecting.pc = "accounts"
  /\ connecting' = ConnectState("failed", ZeroAddr, ErrRejected)
  /\ UNCHANGED <<svcVars, walletVars, handlers, calls, lookup, notified>>

\* getSigner() resolves with a signer for the account the wallet exposes
\* now; on to await getNetwork()
ConnectSigner ==
  /\ connecting.pc = "signer"
  /\ walletAccount # ZeroAddr
  /\ signer' = walletAccount
  /\ currentAccount' = connecting.account
  /\ isConnected' = TRUE
  /\ connecting' = ConnectState("network", connecting.account, "none")
  /\ UNCHANGED <<provider, contract, currentNetwork, mockMode,
                 mockRecords, walletVars,
                 handlers, calls, lookup, notified>>

\* getSigner() rejects: connectWallet rethrows
ConnectSignerFails ==
  /\ connecting.pc = "signer"
  /\ connecting' = ConnectState("failed", ZeroAddr, ErrProvider)
  /\ UNCHANGED <<svcVars, walletVars, handlers, calls, lookup, notified>>

\* getNetwork() resolves: network recorded, _setupEventListeners(), return
ConnectNetwork ==
  /\ connecting.pc = "network"
  /\ currentNetwork' = walletChain
  /\ listeners' = IF hasWallet THEN listeners + 1 ELSE listeners
  /\ connecting' = ConnectState("done", connecting.account, "none")
  /\ UNCHANGED <<provider, signer, contract, currentAccount, isConnected,
                 mockMode,
                 mockRecords, hasWallet, walletAccount, walletChain, handlers,
                 calls, lookup, notified>>

\* getNetwork() rejects: connectWallet rethrows
ConnectNetworkFails ==
  /\ connecting.pc = "network"
  /\ connecting' = ConnectState("failed", ZeroAddr, ErrProvider)
  /\ UNCHANGED <<svcVars, walletVars, handlers, calls, lookup, notified>>

\* ---- disconnectWallet ----
\* mutant: the handlers stay registered
disconnectWallet_KeepsListeners ==
  /\ provider' = "null"
  /\ signer' = ZeroAddr
  /\ contract' = NullContract
  /\ currentAccount' = ZeroAddr
  /\ currentNetwork' = "null"
  /\ isConnected' = FALSE
  /\ listeners' = listeners

disconnectWallet ==
  /\ provider' = "null"
  /\ signer' = ZeroAddr
  /\ contract' = NullContract
  /\ currentAccount' = ZeroAddr
  /\ currentNetwork' = "null"
  /\ isConnected' = FALSE
  /\ listeners' = IF hasWallet THEN 0 ELSE listeners

DisconnectWallet ==
  /\ disconnectWallet
  /\ notified' = ZeroAddr
  /\ UNCHANGED <<mockMode,
                 mockRecords, hasWallet, walletAccount, walletChain, asyncVars>>

\* ---- getConnectionStatus ----
\* mutant: the account is handed out once and forgotten
GetConnectionStatus_Consumes ==
  /\ status' = [isConnected |-> isConnected, account |-> currentAccount,
                network |-> currentNetwork, seen |-> svcVars]
  /\ currentAccount' = ZeroAddr
  /\ UNCHANGED <<provider, signer, contract, currentNetwork, isConnected,
                 mockMode, mockRecords, walletVars, asyncVars, notified,
                 bindResult, estimate, detection, emitted>>

GetConnectionStatus ==
  /\ status' = [isConnected |-> isConnected, account |-> currentAccount,
                network |-> currentNetwork, seen |-> svcVars]
  /\ UNCHANGED <<svcVars, walletVars, asyncVars, notified, bindResult,
                 estimate, detection, emitted>>

\* ---- initializeContract ----
\* throws when there is no signer, and then changes nothing
InitializeContract ==
  /\ IF signer = ZeroAddr
     THEN /\ bindResult' = ErrNotConnected
          /\ UNCHANGED contract
     ELSE /\ bindResult' = "ok"
          /\ contract' = LiveContract(signer)
  /\ UNCHANGED <<provider, signer, currentAccount, currentNetwork,
                 isConnected, mockMode,
                 mockRecords, walletVars, asyncVars, notified,
                 estimate, status, detection, emitted>>

\* ---- the accountsChanged handler of _setupEventListeners ----
\* the wallet exposes another account (or none); every registered handler
\* runs up to its first await
AccountsChanged(a) ==
  /\ a # walletAccount
  /\ walletAccount' = a
  /\ UNCHANGED <<hasWallet, walletChain, mockMode,
                 mockRecords, connecting, calls, lookup,
                 bindResult, estimate, status, detection>>
  /\ emitted' = IF a = ZeroAddr THEN listeners ELSE 0
  /\ IF listeners = 0
     THEN UNCHANGED <<provider, signer, contract, currentAccount,
                      currentNetwork, isConnected, listeners, handlers,
                      notified>>
     ELSE IF a = ZeroAddr
     THEN \* accounts.length === 0: disconnectWallet(), walletDisconnected
          /\ disconnectWallet
          /\ notified' = ZeroAddr
          /\ UNCHANGED handlers
     ELSE \* this.currentAccount = accounts[0]; await provider.getSigner()
          /\ currentAccount' = a
          /\ notified' = IF isConnected /\ contract.kind = "live"
                         THEN a ELSE ZeroAddr
          /\ IF provider = "browser"
             THEN /\ handlers + listeners <= MaxHandlers
                  /\ handlers' = handlers + listeners
             ELSE \* this.provider.getSigner is not callable: the TypeError
                  \* is caught at once
                  UNCHANGED handlers
          /\ UNCHANGED <<provider, signer, contract, currentNetwork,
                         isConnected, listeners>>

\* getSigner() of a suspended handler resolves: signer replaced, contract
\* re-created with it when there is one
HandlerResume ==
  /\ handlers > 0
  /\ walletAccount # ZeroAddr
  /\ handlers' = handlers - 1
  /\ signer' = walletAccount
  /\ contract' = IF contract.kind = "live"
                 THEN LiveContract(walletAccount)
                 ELSE \* null: nothing to do; mock: it has no target and no
                      \* interface, new ethers.Contract throws, caught
                      contract
  /\ UNCHANGED <<provider, currentAccount, currentNetwork, isConnected,
                 mockMode,
                 mockRecords, walletVars, connecting, calls, lookup, notified>>

\* getSigner() of a suspended handler rejects: caught and logged
HandlerFails ==
  /\ handlers > 0
  /\ handlers' = handlers - 1
  /\ UNCHANGED <<svcVars, walletVars, connecting, calls, lookup, notified>>

\* ---- the chainChanged handler: window.location.reload() ----
\* the page starts over; transactions already sent stay with the network,
\* with no call of the page waiting for them any more
Orphan(tx) == [tx EXCEPT !.id = "orphan"]
\* mutant: the reload takes the transactions on their way with it
ChainChanged_DropsPending(c) ==
  /\ c # walletChain
  /\ walletChain' = c
  /\ UNCHANGED <<hasWallet, walletAccount>>
  /\ IF listeners = 0
     THEN UNCHANGED <<svcVars, listeners, asyncVars, notified, mempool,
                      obsVars>>
     ELSE /\ Construct
          /\ listeners' = 0
          /\ connecting' = ConnectIdle
          /\ handlers' = 0
          /\ calls' = [f \in Slots |-> IdleCall]
          /\ lookup' = LookupIdle
          /\ notified' = ZeroAddr
          /\ bindResult' = "none"
          /\ estimate' = EstimateIdle
          /\ emitted' = 0
          /\ status' = NoStatus
          /\ detection' = NoDetection
          /\ mempool' = {}

ChainChanged(c) ==
  /\ c # walletChain
  /\ walletChain' = c
  /\ UNCHANGED <<hasWallet, walletAccount>>
  /\ IF listeners = 0
     THEN UNCHANGED <<svcVars, listeners, asyncVars, notified, mempool,
                      obsVars>>
     ELSE /\ Construct
          /\ listeners' = 0
          /\ connecting' = ConnectIdle
          /\ handlers' = 0
          /\ calls' = [f \in Slots |-> IdleCall]
          /\ lookup' = LookupIdle
          /\ notified' = ZeroAddr
          /\ bindResult' = "none"
          /\ estimate' = EstimateIdle
          /\ emitted' = 0
          /\ status' = NoStatus
          /\ detection' = NoDetection
          /\ mempool' = {Orphan(tx) : tx \in mempool}

\* ---- enableMockMode / disableMockMode ----
\* options.records: the digests the caller seeds the mock with
enableMockMode(seeded) ==
  /\ mockMode' = TRUE
  /\ mockRecords' = seeded
  /\ isConnected' = TRUE
  /\ currentAccount' = MockAccount
  /\ currentNetwork' = MockNetwork
  /\ contract' = MockContract
  /\ provider' = "mock"
  /\ notified' = ZeroAddr
  /\ UNCHANGED <<signer, walletVars, asyncVars>>

\* enableMockMode(): no options
EnableMockMode == enableMockMode({})

DisableMockMode ==
  /\ mockMode' = FALSE
  /\ mockRecords' = {}
  /\ isConnected' = FALSE
  /\ currentAccount' = ZeroAddr
  /\ currentNetwork' = "null"
  /\ notified' = ZeroAddr
  /\ UNCHANGED <<provider, signer, contract, walletVars, asyncVars>>

\* ---- storeVerificationRecord, called by the form f ----
\* what contract.storeRecord(hash, isAuthentic, Math.round(confidence)) does
\* before anything is sent: the arguments are encoded for the ABI and the
\* call is estimated against the current ledger state
SendError(h, c) ==
  IF c < 0 \/ c > Uint8Max THEN ErrInvalidArgument
  ELSE storeRecordRevert(h, c)

\* mutant: the call goes to the contract without looking for one first
SubmitCall_NoBindingCheck(f, contentHash, isAuthentic, confidence) ==
  LET h == hashBytes32(contentHash)
      c == MathRound(confidence) IN
  /\ calls[f].pc \in {"idle", "done"}
  /\ IF contract.kind = "null"
     THEN /\ calls' = [calls EXCEPT ![f] =
                         Call("waiting", h, isAuthentic, confidence, ZeroAddr,
                              FALSE, FALSE, "none")]
          /\ UNCHANGED mempool
     ELSE IF contract.kind = "mock"
     THEN /\ calls' = [calls EXCEPT ![f] =
                         Requested(Call("waiting", h, isAuthentic, confidence,
                                        MockAccount, TRUE, FALSE, "none"))]
          /\ UNCHANGED mempool
     ELSE IF SendError(h, c) # NoRevert
     THEN /\ calls' = [calls EXCEPT ![f] =
                         IF SendError(h, c) = ErrInvalidArgument
                         THEN Call("done", h, isAuthentic, confidence,
                                   contract.signer, FALSE, FALSE,
                                   ErrInvalidArgument)
                         ELSE Requested(Call("done", h, isAuthentic,
                                             confidence, contract.signer,
                                             FALSE, FALSE, SendError(h, c)))]
          /\ UNCHANGED mempool
     ELSE /\ calls' = [calls EXCEPT ![f] =
                         Requested(Call("waiting", h, isAuthentic, confidence,
                                        contract.signer, FALSE, FALSE,
                                        "none"))]
          /\ mempool' = mempool \cup
                          {Tx(f, contract.signer, h, isAuthentic, c)}
  /\ UNCHANGED <<svcVars, walletVars, connecting, handlers, lookup, notified>>

\* the call up to `await tx.wait()`: the transaction is signed by the signer
\* the contract was created with and sent; or the call has thrown
SubmitCall(f, contentHash, isAuthentic, confidence) ==
  LET h == hashBytes32(contentHash)
      c == MathRound(confidence) IN
  /\ calls[f].pc \in {"idle", "done"}
  /\ IF contract.kind = "null"
     THEN /\ calls' = [calls EXCEPT ![f] =
                         Call("done", h, isAuthentic, confidence, ZeroAddr,
                              FALSE, FALSE, ErrNotInitialized)]
          /\ UNCHANGED mempool
     ELSE IF contract.kind = "mock"
     THEN /\ calls' = [calls EXCEPT ![f] =
                         Requested(Call("waiting", h, isAuthentic, confidence,
                                        MockAccount, TRUE, FALSE, "none"))]
          /\ UNCHANGED mempool
     ELSE IF SendError(h, c) # NoRevert
     THEN /\ calls' = [calls EXCEPT ![f] =
                         IF SendError(h, c) = ErrInvalidArgument
                         THEN Call("done", h, isAuthentic, confidence,
                                   contract.signer, FALSE, FALSE,
                                   ErrInvalidArgument)
                         ELSE Requested(Call("done", h, isAuthentic,
                                             confidence, contract.signer,
                                             FALSE, FALSE, SendError(h, c)))]
          /\ UNCHANGED mempool
     ELSE /\ calls' = [calls EXCEPT ![f] =
                         Requested(Call("waiting", h, isAuthentic, confidence,
                                        contract.signer, FALSE, FALSE,
                                        "none"))]
          /\ mempool' = mempool \cup
                          {Tx(f, contract.signer, h, isAuthentic, c)}
  /\ UNCHANGED <<svcVars, walletVars, connecting, handlers, lookup, notified>>

\* the same call when the wallet declines to sign: nothing is sent
SubmitRejected(f, contentHash, isAuthentic, confidence) ==
  LET h == hashBytes32(contentHash)
      c == MathRound(confidence) IN
  /\ calls[f].pc \in {"idle", "done"}
  /\ contract.kind = "live"
  /\ SendError(h, c) = NoRevert
  /\ calls' = [calls EXCEPT ![f] =
                 Requested(Call("done", h, isAuthentic, confidence,
                                contract.signer, FALSE, FALSE, ErrRejected))]
  /\ UNCHANGED <<svcVars, walletVars, connecting, handlers, lookup, notified,
                 mempool>>

\* the ledger includes a transaction of the page; the receipt is there for
\* the call that waits for it
IncludeSubmitted(f) ==
  \E tx \in mempool :
    /\ tx.id = f
    /\ Include(tx)
    /\ calls' = [calls EXCEPT ![f].pc = "mined", ![f].ok = ret'.ok,
                              ![f].error = ret'.reason, ![f].block = now]
    /\ UNCHANGED <<svcVars, walletVars, connecting, handlers, lookup,
                   notified, obsVars>>

\* a transaction whose page is gone is included all the same
IncludeOrphan ==
  \E tx \in mempool :
    /\ tx.id = "orphan"
    /\ Include(tx)
    /\ UNCHANGED clientVars

\* mutant: a reverted transaction is reported like an included one
SubmitResolve_IgnoreStatus(f) ==
  /\ calls[f].pc = "mined"
  /\ calls' = [calls EXCEPT ![f].pc = "done", ![f].ok = TRUE]
  /\ UNCHANGED <<svcVars, walletVars, connecting, handlers, lookup, notified>>

\* tx.wait() settles: the receipt is returned, or the revert is thrown
SubmitResolve(f) ==
  /\ calls[f].pc = "mined"
  /\ calls' = [calls EXCEPT ![f].pc = "done"]
  /\ UNCHANGED <<svcVars, walletVars, connecting, handlers, lookup, notified>>

\* the mock contract: a delay, then a made-up receipt
SubmitMockResolve(f) ==
  /\ calls[f].pc = "waiting"
  /\ calls[f].mock
  /\ calls' = [calls EXCEPT ![f].pc = "done", ![f].ok = TRUE]
  /\ UNCHANGED <<svcVars, walletVars, connecting, handlers, lookup, notified>>

\* ---- the error a failed storeVerificationRecord throws ----
\* the message of the error tx.wait() throws for a receipt with status 0: it
\* names no reason
TxReverted == "transaction execution reverted"
\* error.code
ErrorCode(e) ==
  CASE e = ErrRejected -> "ACTION_REJECTED"
    [] e = ErrInvalidArgument -> "INVALID_ARGUMENT"
    [] e \in {RevertEmptyHash, RevertConfidence, RevertDuplicate, TxReverted}
         -> "CALL_EXCEPTION"
    [] OTHER -> "none"
\* the error the catch of storeVerificationRecord throws again: the error of
\* the send, which carries the reason of the revert the node answered with,
\* or the error of tx.wait() once the transaction was included and reverted
Thrown(call) ==
  IF call.block > 0
  THEN [code |-> ErrorCode(TxReverted), message |-> TxReverted]
  ELSE [code |-> ErrorCode(call.error), message |-> call.error]

\* ---- handleBlockchainError ----
\* error.message?.includes(phrase), for the phrases the handler looks for
Includes(message, phrase) ==
  \/ phrase = "Contract not initialized" /\ message = ErrNotInitialized
  \/ phrase = "Record already exists" /\ message = RevertDuplicate
\* the title of the message shown for the error: the first test that matches
handleBlockchainError(error) ==
  IF error.code = "ACTION_REJECTED" THEN "Transaction Cancelled"
  ELSE IF Includes(error.message, "insufficient funds")
          \/ error.code = "INSUFFICIENT_FUNDS" THEN "Insufficient Funds"
  ELSE IF Includes(error.message, "wrong network")
          \/ error.code = "NETWORK_ERROR" THEN "Wrong Network"
  ELSE IF Includes(error.message, "timeout")
          \/ Includes(error.message, "congestion") THEN "Network Busy"
  ELSE IF Includes(error.message, "Contract not initialized")
  THEN "Contract Not Available"
  ELSE IF Includes(error.message, "Record already exists")
  THEN "Already Verified"
  ELSE "Transaction Failed"

\* ---- estimateGasCost ----
\* amounts of wei are written in tenths of a gwei: 15 is 1.5 gwei
GweiUnit == 10
\* BigInt(21000), the estimate of the mock contract
MockGasEstimate == 21000
\* BigInt(20000000000), the gas price of the mock provider: 20 gwei
MockGasPrice == 20 * GweiUnit
\* what the node answers to eth_estimateGas for a storeRecord that passes
LiveGasEstimate == 45000
\* what the node of a chain answers to eth_gasPrice
GasPriceOf(chain) == IF chain = "0x7a69" THEN GweiUnit ELSE 15
\* up to `await this.contract.storeRecord.estimateGas(...)`
EstimateCall(contentHash, isAuthentic, confidence) ==
  LET h == hashBytes32(contentHash)
      c == MathRound(confidence) IN
  /\ estimate.pc \in {"idle", "done"}
  /\ estimate' =
       IF contract.kind = "null"
       THEN Estimate("done", h, confidence, FALSE, FALSE, ErrNotInitialized)
       ELSE IF contract.kind = "live" /\ (c < 0 \/ c > Uint8Max)
       THEN Estimate("done", h, confidence, FALSE, FALSE, ErrInvalidArgument)
       ELSE Requested(Estimate("estimating", h, confidence,
                               contract.kind = "mock", FALSE, "none"))
  /\ UNCHANGED <<svcVars, walletVars, asyncVars, notified, bindResult,
                 status, detection, emitted>>

\* mutant: an estimate that failed is asked for again
EstimateResolve_Retry ==
  /\ estimate.pc = "estimating"
  /\ estimate' =
       IF ~estimate.mock
          /\ storeRecordRevert(estimate.hash,
                               MathRound(estimate.confidence)) # NoRevert
       THEN [estimate EXCEPT !.requests = @ + 1]
       ELSE IF provider = "null"
       THEN [estimate EXCEPT !.pc = "done", !.error = ErrTypeError]
       ELSE [estimate EXCEPT
               !.pc = "pricing",
               !.gasEstimate = IF estimate.mock THEN MockGasEstimate
                               ELSE LiveGasEstimate,
               !.feeFrom = provider]
  /\ UNCHANGED <<svcVars, walletVars, asyncVars, notified, bindResult,
                 status, detection, emitted>>

\* the estimate is there, or the node answers with the revert of the call;
\* with the estimate, on to `await this.provider.getFeeData()`
EstimateResolve ==
  /\ estimate.pc = "estimating"
  /\ estimate' =
       IF ~estimate.mock
          /\ storeRecordRevert(estimate.hash,
                               MathRound(estimate.confidence)) # NoRevert
       THEN [estimate EXCEPT
               !.pc = "done",
               !.error = storeRecordRevert(estimate.hash,
                                           MathRound(estimate.confidence))]
       ELSE IF provider = "null"
       THEN [estimate EXCEPT !.pc = "done", !.error = ErrTypeError]
       ELSE [estimate EXCEPT
               !.pc = "pricing",
               !.gasEstimate = IF estimate.mock THEN MockGasEstimate
                               ELSE LiveGasEstimate,
               !.feeFrom = provider]
  /\ UNCHANGED <<svcVars, walletVars, asyncVars, notified, bindResult,
                 status, detection, emitted>>

\* ethers.formatUnits(gasPrice, "gwei"): the whole gwei and the fraction
formatUnits(v) == <<v \div GweiUnit, v % GweiUnit>>

\* the fee data is there: the cost is computed and returned
EstimatePrice ==
  LET gasPrice == IF estimate.feeFrom = "mock" THEN MockGasPrice
                  ELSE GasPriceOf(walletChain)
      totalCost == estimate.gasEstimate * gasPrice IN
  /\ estimate.pc = "pricing"
  /\ estimate' = [estimate EXCEPT !.pc = "done", !.ok = TRUE,
                                  !.gasLimit = estimate.gasEstimate,
                                  !.gasPrice = formatUnits(gasPrice),
                                  !.totalCostWei = totalCost]
  /\ UNCHANGED <<svcVars, walletVars, asyncVars, notified, bindResult,
                 status, detection, emitted>>

\* ---- handleTextSubmit / handleImageSubmit ----
\* thousandths in one
OracleUnit == 1000
\* mutant: the confidence is passed on as the fraction it is
Percent_NoScale(confidence) == (confidence * ConfUnit) \div OracleUnit
\* detectionResult.confidence * 100, in tenths
Percent(confidence) == (confidence * 100 * ConfUnit) \div OracleUnit

\* the detection service answers the form
Detect(isAiGenerated, confidence) ==
  /\ detection' = Detection(isAiGenerated, confidence)
  /\ UNCHANGED <<svcVars, walletVars, asyncVars, notified, bindResult,
                 estimate, status, emitted>>

\* the form f goes on with the answer: the cost is estimated with
\* isAuthentic = !isAiGenerated and confidence = confidence * 100
EstimateDetected(contentHash) ==
  /\ detection # NoDetection
  /\ EstimateCall(contentHash, ~detection.isAiGenerated,
                  Percent(detection.confidence))

\* and the record is stored with the same arguments
SubmitDetected(f, contentHash) ==
  /\ detection # NoDetection
  /\ SubmitCall(f, contentHash, ~detection.isAiGenerated,
                Percent(detection.confidence))
  /\ UNCHANGED obsVars

\* ---- getVerificationRecord ----
\* up to `await this.contract.getRecord(hashBytes32)`
LookupCall(contentHash) ==
  /\ lookup.pc \in {"idle", "done"}
  /\ lookup' = IF contract.kind = "null"
               THEN Lookup("done", hashBytes32(contentHash), FALSE,
                           DefaultRecord, ErrNotInitialized)
               ELSE Lookup("pending", hashBytes32(contentHash),
                           contract.kind = "mock", DefaultRecord, "none")
  /\ UNCHANGED <<svcVars, walletVars, connecting, handlers, calls, notified>>

\* the result tuple parsed: null unless result[5] || result.exists, else the
\* record with confidence and timestamp as numbers
ParseRecord(result) ==
  IF ~result.exists THEN DefaultRecord
  ELSE [contentHash |-> result.contentHash,
        isAuthentic |-> result.isAuthentic,
        confidence |-> result.confidence,
        timestamp |-> result.timestamp,
        verifier |-> result.verifier,
        exists |-> TRUE]

\* getRecord answers: the ledger's answer now, or the mock's fixed answer
LookupResolve ==
  /\ lookup.pc = "pending"
  /\ lookup' = [lookup EXCEPT
                  !.pc = "done",
                  !.record = IF lookup.mock THEN ParseRecord(DefaultRecord)
                             ELSE ParseRecord(getRecord(lookup.hash))]
  /\ UNCHANGED <<svcVars, walletVars, connecting, handlers, calls, notified>>

\* what getVerificationRecord hands to its caller: null when the record
\* does not exist, else the parsed record
Returned(l) == [null |-> ~l.record.exists, record |-> l.record]

\* ---- ResultCard.verifyOnBlockchain ----
\* the title of the toast: reading record.exists of null throws a TypeError,
\* which the catch reports like a failed query
verifyOnBlockchain(r) ==
  IF r.null THEN "Verification Failed"
  ELSE IF r.record.exists THEN "Blockchain Record Found"
  ELSE "No Blockchain Record"

\* ---- VerifyForm.handleVerify ----
\* the title of the toast; both branches ask getCurrentNetworkInfo(), which
\* throws without a provider that has getNetwork
handleVerify(r, p) ==
  IF p # "browser" THEN "Verification Failed"
  ELSE IF ~r.null /\ r.record.exists THEN "Verification Complete"
  ELSE "Certificate Not Found"

LedgerInit ==
  /\ records = [h \in Digest |-> DefaultRecord]
  /\ userRecords = [u \in Addr |-> <<>>]
  /\ events = <<>>
  /\ now = 1
  /\ ret = NoRet
  /\ mempool = {}

Init == LedgerInit /\ ClientInit

(***************************************************************************)
(* The ledger driven directly at its entry points, by any caller with any  *)
(* arguments, one call after the other.                                    *)
(***************************************************************************)
DirectSend ==
  /\ mempool = {}
  /\ \E s \in Addr, h \in Digest, v \in StoreInputs :
       mempool' = {Tx("direct", s, h, v[1], v[2])}
  /\ ret' = NoRet
  /\ UNCHANGED <<ledgerVars, clientVars>>

DirectStore ==
  /\ \E tx \in mempool : tx.id = "direct" /\ Include(tx)
  /\ UNCHANGED clientVars

DirectView(op) ==
  /\ mempool = {}
  /\ CallView(op)
  /\ UNCHANGED <<now, mempool, clientVars>>

DirectGetRecord == DirectView("getRecord")
DirectGetUserRecords == DirectView("getUserRecords")
DirectGetUserRecordCount == DirectView("getUserRecordCount")
DirectRecordExists == DirectView("recordExists")

Tick == NewBlock /\ UNCHANGED clientVars

LedgerNext ==
  \/ DirectSend
  \/ DirectStore
  \/ DirectGetRecord
  \/ DirectGetUserRecords
  \/ DirectGetUserRecordCount
  \/ DirectRecordExists
  \/ Tick

LedgerSpec == Init /\ [][LedgerNext]_vars

(***************************************************************************)
(* The page: one service instance, the wallet, the forms and the ledger.   *)
(***************************************************************************)
\* the ledger and the network are left alone by the steps of the page
LedgerAlone(A) ==
  A /\ UNCHANGED <<records, userRecords, events, now, ret, mempool>>
\* the same for a step that binds nothing, estimates nothing and dispatches
\* nothing
PageOnly(A) == LedgerAlone(A) /\ UNCHANGED obsVars

\* what the forms submit: a whole confidence and one that is rounded up
SubmitInputs == {<<TRUE, 920>>, <<FALSE, 925>>}
\* one verdict, where the verdict is not what is looked at
OneInput == {<<TRUE, 920>>}
\* the two contents the page has hashed, written with and without "0x"
HashInputs == {ContentHash(p, d) : p \in BOOLEAN, d \in {1, MaxDigest}}
\* the two accounts the wallet holds
WalletAccounts == {1, MaxAddr}

Connect ==
  \/ (listeners < MaxHandlers /\ PageOnly(ConnectStart))
  \/ PageOnly(ConnectAccounts)
  \/ PageOnly(ConnectSigner)
  \/ PageOnly(ConnectNetwork)

Bind == signer # ZeroAddr /\ LedgerAlone(InitializeContract)

SubmitSend(f, inputs) ==
  \E ch \in HashInputs, v \in inputs :
    SubmitCall(f, ch, v[1], v[2]) /\ UNCHANGED <<ledgerVars, ret, obsVars>>

SubmitDeclined(f) ==
  \E ch \in HashInputs, v \in OneInput :
    PageOnly(SubmitRejected(f, ch, v[1], v[2]))

SubmitWait(f) ==
  \/ IncludeSubmitted(f)
  \/ PageOnly(SubmitResolve(f))

LookupStep ==
  \/ \E ch \in HashInputs : PageOnly(LookupCall(ch))
  \/ PageOnly(LookupResolve)

AccountSwitch == \E a \in WalletAccounts : LedgerAlone(AccountsChanged(a))
AccountsLocked == LedgerAlone(AccountsChanged(ZeroAddr))
ChainSwitch ==
  \E c \in Chains :
    ChainChanged(c) /\ UNCHANGED <<records, userRecords, events, now, ret>>

\* store and lookup through one service, live or mock
RoundTripNext ==
  \/ Connect
  \/ Bind
  \/ PageOnly(EnableMockMode)
  \/ SubmitSend("text", SubmitInputs)
  \/ SubmitWait("text")
  \/ PageOnly(SubmitMockResolve("text"))
  \/ LookupStep

RoundTripSpec == Init /\ [][RoundTripNext]_vars

\* the two forms of the page submit side by side, the account may change
RaceNext ==
  \/ Connect
  \/ Bind
  \/ AccountSwitch
  \/ PageOnly(HandlerResume)
  \/ SubmitSend("text", OneInput)
  \/ SubmitWait("text")
  \/ SubmitSend("image", OneInput)
  \/ SubmitWait("image")

RaceSpec == Init /\ [][RaceNext]_vars

\* the wallet changes account under a connected page
RebindNext ==
  \/ Connect
  \/ Bind
  \/ AccountSwitch
  \/ PageOnly(HandlerResume)
  \/ PageOnly(HandlerFails)
  \/ SubmitSend("text", OneInput)
  \/ SubmitDeclined("text")
  \/ SubmitWait("text")

RebindSpec == Init /\ [][RebindNext]_vars

\* notifications and disconnect while a transaction is on its way
InFlightNext ==
  \/ Connect
  \/ Bind
  \/ AccountSwitch
  \/ AccountsLocked
  \/ PageOnly(HandlerResume)
  \/ ChainSwitch
  \/ PageOnly(DisconnectWallet)
  \/ (mempool = {} /\ SubmitSend("text", OneInput))
  \/ SubmitWait("text")
  \/ IncludeOrphan

InFlightSpec == Init /\ [][InFlightNext]_vars

\* connecting, binding and disconnecting in any order, live or mock
BindNext ==
  \/ Connect
  \/ LedgerAlone(InitializeContract)
  \/ PageOnly(EnableMockMode)
  \/ PageOnly(DisableMockMode)
  \/ PageOnly(DisconnectWallet)
  \/ AccountSwitch
  \/ PageOnly(HandlerResume)

BindSpec == Init /\ [][BindNext]_vars

\* one form submits, blocks go by, the page may be reloaded
StatusNext ==
  \/ Connect
  \/ Bind
  \/ PageOnly(EnableMockMode)
  \/ SubmitSend("text", OneInput)
  \/ SubmitDeclined("text")
  \/ SubmitWait("text")
  \/ PageOnly(SubmitMockResolve("text"))
  \/ ChainSwitch
  \/ IncludeOrphan
  \/ Tick

StatusSpec == Init /\ [][StatusNext]_vars

EstimateStep ==
  \/ \E ch \in HashInputs, v \in OneInput :
       LedgerAlone(EstimateCall(ch, v[1], v[2]))
  \/ LedgerAlone(EstimateResolve)
  \/ LedgerAlone(EstimatePrice)

\* a form estimates and submits, live or mock; the service may be
\* disconnected under it
EstimateNext ==
  \/ Connect
  \/ Bind
  \/ PageOnly(EnableMockMode)
  \/ PageOnly(DisconnectWallet)
  \/ EstimateStep
  \/ SubmitSend("text", SubmitInputs)
  \/ SubmitDeclined("text")
  \/ SubmitWait("text")
  \/ PageOnly(SubmitMockResolve("text"))

EstimateSpec == Init /\ [][EstimateNext]_vars

\* connecting and disconnecting, with every outcome of connectWallet, in a
\* browser with or without a wallet
ConnectNext ==
  \/ PageOnly(ConnectStart)
  \/ PageOnly(ConnectAccounts)
  \/ PageOnly(ConnectAccountsRejected)
  \/ PageOnly(ConnectSigner)
  \/ PageOnly(ConnectSignerFails)
  \/ PageOnly(ConnectNetwork)
  \/ PageOnly(ConnectNetworkFails)
  \/ Bind
  \/ PageOnly(DisconnectWallet)
  \/ AccountSwitch
  \/ AccountsLocked
  \/ PageOnly(HandlerResume)

ConnectInit == LedgerInit /\ (ClientInit \/ NoWalletInit)

ConnectSpec == ConnectInit /\ [][ConnectNext]_vars

\* the hash of all zeros, written with and without "0x"
ZeroHashInputs == {ContentHash(p, ZeroHash) : p \in BOOLEAN}

\* a form estimates and submits with any digest, the zero digest included
ZeroDigestNext ==
  \/ Connect
  \/ Bind
  \/ PageOnly(EnableMockMode)
  \/ \E ch \in HashInputs \cup ZeroHashInputs, v \in OneInput :
       SubmitCall("text", ch, v[1], v[2])
         /\ UNCHANGED <<ledgerVars, ret, obsVars>>
  \/ SubmitWait("text")
  \/ PageOnly(SubmitMockResolve("text"))
  \/ \E ch \in HashInputs \cup ZeroHashInputs, v \in OneInput :
       LedgerAlone(EstimateCall(ch, v[1], v[2]))
  \/ LedgerAlone(EstimateResolve)
  \/ LedgerAlone(EstimatePrice)

ZeroDigestSpec == Init /\ [][ZeroDigestNext]_vars

\* what a caller seeds the mock with: nothing, or a record for digest 1
SeedInputs == {{}, {1}}
\* the account the same calls are made from on the live path
LiveAccount == 1

\* a submit to the mock contract, with the same storeRecord made on the
\* ledger from LiveAccount: ret is what the live path answers to the call
SubmitShadowed(f) ==
  \E ch \in HashInputs, v \in OneInput :
    /\ contract.kind = "mock"
    /\ SubmitCall(f, ch, v[1], v[2])
    /\ storeRecord(LiveAccount, hashBytes32(ch), v[1], MathRound(v[2]))
    /\ UNCHANGED <<now, obsVars>>

\* the service in mock mode, seeded or not, next to the ledger the same
\* calls would have gone to
MockNext ==
  \/ \E seeded \in SeedInputs : PageOnly(enableMockMode(seeded))
  \/ SubmitShadowed("text")
  \/ PageOnly(SubmitMockResolve("text"))
  \/ LookupStep
  \/ Tick

MockSpec == Init /\ [][MockNext]_vars

\* the status is asked for while the service connects, binds, switches to
\* mock mode, disconnects and is notified of another account
ReadNext ==
  \/ Connect
  \/ Bind
  \/ PageOnly(EnableMockMode)
  \/ PageOnly(DisconnectWallet)
  \/ AccountSwitch
  \/ PageOnly(HandlerResume)
  \/ LedgerAlone(GetConnectionStatus)

ReadSpec == Init /\ [][ReadNext]_vars

\* what the detection service answers: the ends of [0, 1], and confidences
\* whose hundredfold is rounded down and up
OracleInputs ==
  {Detection(ai, c) : ai \in BOOLEAN, c \in {0, 924, 925, OracleUnit}}

\* the form is not in the middle of a submission
FormIdle ==
  /\ calls["text"].pc \in {"idle", "done"}
  /\ estimate.pc \in {"idle", "done"}

\* a form has its text detected, the cost estimated and, once the estimate
\* is there, the verdict stored, one submission at a time
OracleNext ==
  \/ Connect
  \/ Bind
  \/ \E d \in OracleInputs :
       FormIdle /\ LedgerAlone(Detect(d.isAiGenerated, d.confidence))
  \/ \E ch \in HashInputs :
       FormIdle /\ LedgerAlone(EstimateDetected(ch))
  \/ LedgerAlone(EstimateResolve)
  \/ LedgerAlone(EstimatePrice)
  \/ \E ch \in HashInputs :
       /\ estimate.pc = "done" /\ estimate.ok
       /\ estimate.hash = hashBytes32(ch)
       /\ estimate.confidence = Percent(detection.confidence)
       /\ SubmitDetected("text", ch)
       /\ UNCHANGED <<ledgerVars, ret>>
  \/ SubmitWait("text")

OracleSpec == Init /\ [][OracleNext]_vars

(***************************************************************************)
(* Properties of the ledger record store.                                  *)
(***************************************************************************)
ValidInputs == {v \in StoreInputs : v[2] <= MaxConfidence}
NonZeroDigest == Digest \ {ZeroHash}

\* digests for which a RecordStored event was emitted
StoredDigests == {events[i].contentHash : i \in 1..Len(events)}
\* the digests of the events of one verifier, in emission order
RECURSIVE StoredBy(_, _)
StoredBy(log, u) ==
  IF log = <<>> THEN <<>>
  ELSE IF log[1].verifier = u
       THEN <<log[1].contentHash>> \o StoredBy(Tail(log), u)
       ELSE StoredBy(Tail(log), u)
IsPrefix(p, q) == Len(p) <= Len(q) /\ SubSeq(q, 1, Len(p)) = p
LastStore(ok, reason) ==
  ret.op = "storeRecord" /\ ret.ok = ok /\ ret.reason = reason

\* C1: for a non-zero digest and a confidence in 0..100, storeRecord on a
\* ledger without a record for the digest succeeds and creates the record; on
\* a ledger that has a record for the digest, storeRecord by any caller with
\* any isAuthentic is rejected and changes nothing, and with a confidence in
\* 0..100 the rejection is the duplicate rejection.
C1_FirstSucceedsLaterDuplicate ==
  [][\A tx \in mempool :
       (Include(tx) /\ tx.hash # ZeroHash) =>
         /\ (~records[tx.hash].exists /\ tx.confidence \in 0..MaxConfidence)
               => (ret'.ok /\ records'[tx.hash].exists)
         /\ records[tx.hash].exists =>
               /\ ~ret'.ok /\ records' = records
               /\ tx.confidence \in 0..MaxConfidence =>
                     ret'.reason = RevertDuplicate]_vars

C1_Witness ==
  /\ LastStore(FALSE, RevertDuplicate)
  /\ \E h \in NonZeroDigest : records[h].exists

\* C2: there is at most one record, one notification and one index entry
\* per digest, and no step changes or removes a record that exists.
C2_OnePerDigest ==
  /\ \A i, j \in 1..Len(events) :
       events[i].contentHash = events[j].contentHash => i = j
  /\ \A h \in Digest :
       Cardinality({<<u, i>> \in Addr \X (1..MaxDigest) :
                      i <= Len(userRecords[u]) /\ userRecords[u][i] = h})
         <= 1
  /\ \A u \in Addr : Len(userRecords[u]) <= MaxDigest
  /\ \A h \in Digest : records[h].exists => records[h].contentHash = h

C2_RecordsImmutable ==
  []C2_OnePerDigest
  /\ [][\A h \in Digest : records[h].exists => records'[h] = records[h]]_vars

C2_Witness ==
  /\ \A h \in NonZeroDigest : records[h].exists
  /\ ret.op = "storeRecord" /\ ~ret.ok

\* C3: a storeRecord call with a zero digest, a confidence above 100 or a
\* digest that is already stored is rejected and leaves records, userRecords
\* and the event log as they were; getRecord of the digest answers as before.
C3_FailedStoreChangesNothing ==
  [][\A tx \in mempool :
       (/\ Include(tx)
        /\ \/ tx.hash = ZeroHash
           \/ tx.confidence > MaxConfidence
           \/ records[tx.hash].exists) =>
         /\ ~ret'.ok
         /\ records' = records /\ userRecords' = userRecords
         /\ events' = events
         /\ getRecord(tx.hash)'.exists = getRecord(tx.hash).exists]_vars

C3_Witness ==
  /\ LastStore(FALSE, RevertConfidence)
  /\ \E h \in NonZeroDigest : ~getRecord(h).exists

\* C4: getUserRecords(u) is the sequence of digests of the successful stores
\* of u in the order they happened, getUserRecordCount(u) is its length, and
\* every step extends each list at its end or leaves it alone.
C4_IndexIsCallOrder ==
  /\ [](\A u \in Addr :
          /\ getUserRecords(u) = StoredBy(events, u)
          /\ getUserRecordCount(u) = Len(StoredBy(events, u)))
  /\ [][\A u \in Addr :
          IsPrefix(getUserRecords(u), getUserRecords(u)')]_vars

C4_Witness ==
  /\ \E u \in Addr :
       /\ getUserRecordCount(u) >= 2
       /\ getUserRecords(u)[1] > getUserRecords(u)[2]
  /\ ret.op = "storeRecord" /\ ~ret.ok

\* C5: a successful storeRecord(h, a, c) by s creates exactly the record
\* {h, a, c, now, s, exists}, appends h to the list of s only and emits one
\* RecordStored event with the fields of that record; a rejected call emits
\* no event.
C5_SuccessfulStoreEffect ==
  [][\A tx \in mempool :
       Include(tx) =>
         IF /\ tx.hash # ZeroHash /\ tx.confidence <= MaxConfidence
            /\ ~records[tx.hash].exists
         THEN /\ records'[tx.hash] =
                   [contentHash |-> tx.hash, isAuthentic |-> tx.isAuthentic,
                    confidence |-> tx.confidence, timestamp |-> now,
                    verifier |-> tx.from, exists |-> TRUE]
              /\ \A g \in Digest \ {tx.hash} : records'[g] = records[g]
              /\ userRecords'[tx.from] = userRecords[tx.from] \o <<tx.hash>>
              /\ \A u \in Addr \ {tx.from} : userRecords'[u] = userRecords[u]
              /\ Len(events') = Len(events) + 1
              /\ SubSeq(events', 1, Len(events)) = events
              /\ LET e == events'[Len(events')]
                     r == records'[tx.hash] IN
                   /\ e.contentHash = r.contentHash
                   /\ e.verifier = r.verifier
                   /\ e.isAuthentic = r.isAuthentic
                   /\ e.confidence = r.confidence
                   /\ e.timestamp = r.timestamp
         ELSE events' = events]_vars

C5_Witness ==
  /\ LastStore(TRUE, NoRevert)
  /\ \E i \in 1..Len(events) : events[i].timestamp = MaxTime

\* C6: getRecord of a digest for which no store succeeded returns the
\* all-default record with exists = false, and a getRecord call leaves the
\* ledger as it was.
C6_AbsentRecordIsDefault ==
  /\ [](\A h \in Digest :
          h \notin StoredDigests => getRecord(h) = DefaultRecord)
  /\ [][CallView("getRecord") =>
          (records' = records /\ userRecords' = userRecords
           /\ events' = events)]_vars

C6_Witness ==
  /\ ret.op = "getRecord"
  /\ \E h, g \in NonZeroDigest : h \notin StoredDigests /\ g \in StoredDigests

(***************************************************************************)
(* Properties of the client service over the ledger.                       *)
(***************************************************************************)
\* the call of the form f has returned a confirmation
Confirmed(f) == calls[f].pc = "done" /\ calls[f].ok
\* the pending lookup is answered in this step
LookupAnswered == lookup.pc = "pending" /\ lookup'.pc = "done"
\* r is the whole number nearest to t tenths, a half going up
Nearest(r, t) ==
  /\ 2 * (r * ConfUnit - t) <= ConfUnit
  /\ 2 * (r * ConfUnit - t) > -ConfUnit

\* C7 (as stated): after submit(D, isAuthentic, confidence) is confirmed, a
\* lookup of D returns a record with exists = true and the isAuthentic and
\* the confidence that were submitted.
C7_RoundTripSame ==
  [][\A f \in Slots :
       (LookupAnswered /\ Confirmed(f) /\ calls[f].hash = lookup.hash)
       => /\ lookup'.record.exists
          /\ lookup'.record.isAuthentic = calls[f].isAuthentic
          /\ lookup'.record.confidence * ConfUnit = calls[f].confidence]_vars

\* C7 (amended): after a submit of (D, isAuthentic, confidence) through a
\* live binding is confirmed, a lookup of D answered through a live binding
\* returns exists = true, the submitted isAuthentic, and the submitted
\* confidence rounded to the nearest whole number, a half going up.
C7_RoundTripRounded ==
  [][\A f \in Slots :
       (/\ LookupAnswered /\ ~lookup.mock
        /\ Confirmed(f) /\ ~calls[f].mock
        /\ calls[f].hash = lookup.hash)
       => /\ lookup'.record.exists
          /\ lookup'.record.isAuthentic = calls[f].isAuthentic
          /\ Nearest(lookup'.record.confidence, calls[f].confidence)]_vars

\* a confirmed live submit of 92.5 and the lookup of its digest giving 93
C7_Witness ==
  /\ Confirmed("text") /\ ~calls["text"].mock
  /\ calls["text"].confidence = 925
  /\ lookup.pc = "done" /\ ~lookup.mock
  /\ lookup.hash = calls["text"].hash
  /\ lookup.record.exists
  /\ lookup.record.confidence = 93
  /\ lookup.record.isAuthentic = calls["text"].isAuthentic

\* the calls whose transaction has been included, or that have returned
Settled(f) == calls[f].pc \in {"mined", "done"}
IndexEntries(h) ==
  {e \in Addr \X (1..Len(events)) :
     e[2] <= Len(userRecords[e[1]]) /\ userRecords[e[1]][e[2]] = h}

\* C8: of the submissions of one digest that race, at most one ends as a
\* successful store; the ledger never holds two notifications or two index
\* entries for the digest, and a submission that did not succeed carries
\* an error.
C8_RaceOneWinner ==
  \A h \in Digest \ {ZeroHash} :
    /\ Cardinality({f \in Slots :
                      Settled(f) /\ calls[f].ok /\ calls[f].hash = h}) <= 1
    /\ Cardinality({i \in 1..Len(events) : events[i].contentHash = h}) <= 1
    /\ Cardinality(IndexEntries(h)) <= 1
    /\ \A f \in Slots :
         (Settled(f) /\ calls[f].hash = h /\ ~calls[f].ok)
         => calls[f].error # "none"

\* both forms had a transaction for the same digest on its way, from two
\* identities; the first included won and the other reverted as duplicate
C8_Witness ==
  /\ calls["text"].pc = "mined" /\ calls["image"].pc = "mined"
  /\ calls["text"].hash = calls["image"].hash
  /\ calls["text"].from # calls["image"].from
  /\ calls["text"].ok
  /\ ~calls["image"].ok /\ calls["image"].error = RevertDuplicate
  /\ Len(events) = 1

\* C9: after an account-changed notification carrying B was delivered to a
\* connected and bound service, a submit started afterwards (with no connect
\* in between) sends its transaction signed by B.
C9_NextSubmitSignedByNotified ==
  [][\A f \in Slots :
       (/\ notified # ZeroAddr
        /\ calls[f].pc # "waiting"
        /\ calls'[f].pc = "waiting")
       => calls'[f].from = notified]_vars

\* two transactions are the same submission: same signer, same arguments
SameSubmission(t1, t2) ==
  /\ t1.from = t2.from
  /\ t1.hash = t2.hash
  /\ t1.isAuthentic = t2.isAuthentic
  /\ t1.confidence = t2.confidence

\* storeRecord was run for tx in this step, with tx.from as the caller
Included(tx) ==
  /\ mempool' = mempool \ {tx}
  /\ ret'.op = "storeRecord"
  /\ IF ret'.ok
     THEN /\ records'[tx.hash].verifier = tx.from
          /\ records'[tx.hash].isAuthentic = tx.isAuthentic
          /\ records'[tx.hash].confidence = tx.confidence
     ELSE records' = records

\* C10: a transaction that was sent stays on its way, with the signer and
\* the arguments it was sent with, across account-changed, chain-changed
\* and disconnect, until the ledger runs it for that signer; a call that
\* waits has its transaction on the way under the identity it was sent with.
C10_InFlightKept ==
  /\ [](\A f \in Slots :
          (calls[f].pc = "waiting" /\ ~calls[f].mock)
          => \E tx \in mempool :
               /\ tx.id = f
               /\ tx.from = calls[f].from
               /\ tx.hash = calls[f].hash)
  /\ [][\A tx \in mempool :
          \/ \E t2 \in mempool' : SameSubmission(tx, t2)
          \/ Included(tx)]_vars

\* the transaction of the waiting call is still on its way, signed by the
\* account it was sent under, after the account-changed handler has bound
\* the service to another account
C10_Witness ==
  \E tx \in mempool :
    /\ tx.id = "text"
    /\ calls["text"].pc = "waiting"
    /\ tx.from = calls["text"].from
    /\ contract.kind = "live"
    /\ contract.signer # tx.from
    /\ handlers = 0

(***************************************************************************)
(* Properties of the connection, the binding and the calls.                *)
(***************************************************************************)
\* the form f calls storeVerificationRecord in this step
CallStarts(f) ==
  /\ calls[f].pc \in {"idle", "done"}
  /\ calls'[f] # calls[f]
  /\ calls'[f].pc # "idle"
  /\ calls'[f].block = 0

\* C11: a submit made while there is no binding ends at once as failed with
\* the contract-not-initialized error; no transaction is sent, and the
\* ledger, the connection state and the wallet are as before.
C11_SubmitUnbound ==
  [][\A f \in Slots :
       (CallStarts(f) /\ contract.kind = "null")
       => /\ calls'[f].pc = "done"
          /\ ~calls'[f].ok
          /\ calls'[f].error = ErrNotInitialized
          /\ calls'[f].from = ZeroAddr
          /\ calls'[f].requests = 0
          /\ mempool' = mempool
          /\ UNCHANGED <<ledgerVars, ret, svcVars, walletVars>>]_vars

\* a submit of an unbound service has failed and nothing reached the ledger
C11_Witness ==
  /\ contract.kind = "null"
  /\ calls["text"].pc = "done"
  /\ calls["text"].error = ErrNotInitialized
  /\ calls["text"].hash # ZeroHash
  /\ mempool = {}
  /\ events = <<>>

\* C12: initializeContract installs a binding only when the service is
\* connected and has a signer; in any other state it throws the
\* not-connected error and leaves this.contract as it was.
C12_BindOnlyConnected ==
  [][InitializeContract
     => IF isConnected /\ signer # ZeroAddr
        THEN bindResult' = "ok" /\ contract' = LiveContract(signer)
        ELSE bindResult' = ErrNotConnected /\ contract' = contract]_vars

\* the status of the transaction of a call, as the form shows it
Status(call) ==
  IF call.pc \in {"waiting", "mined"} THEN "pending"
  ELSE IF call.pc = "done" /\ call.ok THEN "confirmed"
  ELSE IF call.pc = "done" THEN "failed"
  ELSE "null"
\* the chainChanged handler reloads the page in this step
Reloaded == listeners > 0 /\ walletChain' # walletChain

EstimateStarts ==
  /\ estimate.pc \in {"idle", "done"}
  /\ estimate' # estimate
  /\ estimate'.pc \in {"estimating", "done"}
  /\ estimate'.requests <= 1

\* C14: a transaction is sent only in the step in which a form calls
\* storeVerificationRecord, one per call; a call asks its contract object at
\* most once, for a submission as for an estimate; and a call that has
\* failed stays as it is until the caller calls again.
C14_NoRetry ==
  [][/\ ~(mempool' \subseteq mempool)
        => \E f \in Slots :
             /\ CallStarts(f)
             /\ Cardinality(mempool' \ mempool) = 1
             /\ \A tx \in mempool' \ mempool : tx.id = f
     /\ \A f \in Slots :
          /\ calls'[f].requests <= 1
          /\ calls'[f].requests > calls[f].requests => CallStarts(f)
          /\ (Status(calls[f]) = "failed" /\ calls'[f] # calls[f])
             => CallStarts(f)
     /\ estimate'.requests <= 1
     /\ estimate'.requests > estimate.requests => EstimateStarts
     /\ (estimate.pc = "done" /\ estimate' # estimate) => EstimateStarts]_vars

\* an estimate and a submission have both failed on the ledger's duplicate
\* check, each after one request, and nothing more was sent
C14_Witness ==
  /\ estimate.pc = "done" /\ estimate.error = RevertDuplicate
  /\ estimate.requests = 1
  /\ Status(calls["text"]) = "failed"
  /\ calls["text"].error = RevertDuplicate
  /\ calls["text"].requests = 1
  /\ mempool = {}
  /\ Len(events) = 1

\* C15: connectWallet without window.ethereum fails with the no-wallet
\* error, and with an empty account list with the no-accounts error; in both
\* cases no field of the service is written and no handler is registered.
C15_ConnectErrors ==
  [][/\ (connecting.pc # "accounts" /\ connecting' # connecting /\ ~hasWallet)
        => /\ connecting' = ConnectState("failed", ZeroAddr, ErrNoWallet)
           /\ UNCHANGED <<svcVars, walletVars>>
     /\ (connecting.pc = "accounts" /\ connecting' # connecting
         /\ walletAccount = ZeroAddr)
        => /\ connecting'.pc = "failed"
           /\ connecting'.error \in {ErrNoAccounts, ErrRejected}
           /\ UNCHANGED <<svcVars, walletVars>>
     /\ (connecting'.error = ErrNoAccounts /\ connecting' # connecting)
        => walletAccount = ZeroAddr
     /\ (connecting'.error = ErrNoWallet /\ connecting' # connecting)
        => ~hasWallet]_vars

\* connectWallet has failed on an empty account list of a locked wallet and
\* the service is as constructed
C15_Witness ==
  /\ connecting = ConnectState("failed", ZeroAddr, ErrNoAccounts)
  /\ hasWallet
  /\ ~isConnected
  /\ provider = "null" /\ signer = ZeroAddr /\ currentAccount = ZeroAddr
  /\ listeners = 0

\* C16: whatever the state disconnectWallet is called in, it leaves the
\* service not connected, with no provider, signer, contract, account and
\* network, and with no accountsChanged or chainChanged handler registered.
C16_DisconnectClears ==
  [][DisconnectWallet
     => /\ ~isConnected'
        /\ currentAccount' = ZeroAddr
        /\ currentNetwork' = "null"
        /\ provider' = "null"
        /\ signer' = ZeroAddr
        /\ contract' = NullContract
        /\ listeners' = 0]_vars

\* disconnected from a connected and bound service while a handler of an
\* account change was still suspended
C16_Witness ==
  /\ ~isConnected
  /\ connecting.pc = "done"
  /\ bindResult = "ok"
  /\ handlers > 0
  /\ contract = NullContract
  /\ signer = ZeroAddr /\ provider = "null"
  /\ currentAccount = ZeroAddr /\ currentNetwork = "null"
  /\ listeners = 0

\* C17: an accountsChanged notification with an empty list, received by a
\* connected service whose handler is registered, leaves the service as
\* disconnectWallet leaves it and dispatches walletDisconnected exactly once.
C17_OneDisconnectEvent ==
  [][(/\ isConnected /\ listeners > 0
      /\ walletAccount # ZeroAddr /\ walletAccount' = ZeroAddr)
     => /\ ~isConnected'
        /\ currentAccount' = ZeroAddr
        /\ currentNetwork' = "null"
        /\ provider' = "null"
        /\ signer' = ZeroAddr
        /\ contract' = NullContract
        /\ listeners' = 0
        /\ emitted' = 1]_vars

\* C18: an accountsChanged notification with a non-empty list, delivered to a
\* registered handler, sets currentAccount to the first account of the list;
\* when the handler completes, a contract that existed is a contract of the
\* same kind whose signer is the current account, and a missing contract is
\* still missing.
C18_RebindOnAccountChange ==
  [][/\ (/\ listeners > 0
         /\ walletAccount' # walletAccount /\ walletAccount' # ZeroAddr)
        => currentAccount' = walletAccount'
     /\ (/\ listeners > 0 /\ listeners' = listeners
         /\ handlers' < handlers)
        => /\ contract.kind = "live"
              => contract' = LiveContract(currentAccount')
           /\ contract = NullContract => contract' = NullContract]_vars

C20_ZeroDigestLocal ==
  [][/\ \A f \in Slots :
          (CallStarts(f) /\ calls'[f].hash = ZeroHash)
          => /\ calls'[f].pc = "done"
             /\ ~calls'[f].ok
             /\ calls'[f].requests = 0
     /\ (EstimateStarts /\ estimate'.hash = ZeroHash)
          => /\ estimate'.pc = "done"
             /\ ~estimate'.ok
             /\ estimate'.requests = 0]_vars

(***************************************************************************)
(* Properties of the page: errors, costs, mock mode, status.               *)
(***************************************************************************)
\* C21: a submit that failed carries an error, and the message shown for it
\* is the one of its kind: "Already Verified" when the ledger refused a
\* duplicate, "Transaction Cancelled" when the signature was declined,
\* "Contract Not Available" when there was no contract, and
\* "Transaction Failed" for every other error.
C21_FailureClassified ==
  \A f \in Slots :
    (calls[f].pc = "done" /\ ~calls[f].ok)
    => LET title == handleBlockchainError(Thrown(calls[f])) IN
       /\ calls[f].error # "none"
       /\ calls[f].error = RevertDuplicate <=> title = "Already Verified"
       /\ calls[f].error = ErrRejected <=> title = "Transaction Cancelled"
       /\ calls[f].error = ErrNotInitialized
            <=> title = "Contract Not Available"
       /\ calls[f].error \notin {RevertDuplicate, ErrRejected,
                                 ErrNotInitialized}
            <=> title = "Transaction Failed"

\* the price in tenths of a gwei that a returned gasPrice stands for
ParseUnits(p) == p[1] * GweiUnit + p[2]

\* C22: estimateGasCost without a contract fails with the
\* contract-not-initialized error without asking anything; with a contract,
\* what it returns is the estimate of that contract, the current gas price of
\* the network the contract is on (of the mock provider for the mock
\* contract), and their product as the total cost; and no step of an
\* estimate changes the service, the wallet or the ledger.
C22_EstimateCost ==
  [][/\ (EstimateStarts /\ contract.kind = "null")
        => /\ estimate'.pc = "done" /\ ~estimate'.ok
           /\ estimate'.error = ErrNotInitialized
           /\ estimate'.requests = 0
     /\ (estimate.pc = "pricing" /\ estimate'.pc = "done" /\ estimate'.ok)
        => /\ estimate'.gasLimit = IF estimate.mock THEN MockGasEstimate
                                   ELSE LiveGasEstimate
           /\ ParseUnits(estimate'.gasPrice)
                = IF estimate.mock THEN MockGasPrice
                  ELSE GasPriceOf(walletChain)
           /\ estimate'.totalCostWei
                = estimate'.gasLimit * ParseUnits(estimate'.gasPrice)
     /\ (estimate' # estimate /\ estimate'.pc # "idle")
        => UNCHANGED <<svcVars, walletVars, connecting, handlers, calls,
                       records, userRecords, events, mempool>>]_vars

\* C23: a call to the service in mock mode ends as the same call ends on
\* the live path: a submit succeeds exactly when the ledger accepts the same
\* storeRecord, and a lookup finds a record exactly when the ledger holds one
\* for the digest.
C23_MockAsLive ==
  [][/\ \A f \in Slots :
          (calls[f].mock /\ calls[f].pc = "waiting" /\ calls'[f].pc = "done")
          => calls'[f].ok = ret.ok
     /\ (lookup.mock /\ lookup.pc = "pending" /\ lookup'.pc = "done")
          => lookup'.record.exists = records[lookup.hash].exists]_vars

\* C24: in mock mode a lookup reports no record for a digest that was not
\* seeded, whatever was stored before, and reports a record for a digest
\* that was seeded with enableMockMode.
C24_MockLookup ==
  [][(lookup.mock /\ lookup.pc = "pending" /\ lookup'.pc = "done")
     => lookup'.record.exists = (lookup.hash \in mockRecords)]_vars

\* C25: a getConnectionStatus call returns isConnected, currentAccount and
\* currentNetwork as they are and writes nothing; a call made while the
\* fields of the service are what they were at the last call returns what
\* the last call returned.
C25_StatusPureRead ==
  [][(status' # status /\ status' # NoStatus)
     => /\ UNCHANGED <<svcVars, walletVars, asyncVars, notified, bindResult,
                       estimate, emitted, records, userRecords, events,
                       mempool>>
        /\ status'.isConnected = isConnected
        /\ status'.account = currentAccount
        /\ status'.network = currentNetwork
        /\ status.seen = svcVars
             => /\ status'.isConnected = status.isConnected
                /\ status'.account = status.account
                /\ status'.network = status.network]_vars

\* the status of a connected service was asked for, and the service is as it
\* was then
C25_Witness ==
  /\ status.isConnected /\ status.account = MaxAddr
  /\ status.network = "0xaa36a7"
  /\ status.seen = svcVars
  /\ contract.kind = "live"

\* C26: the service holds a contract object only while it is connected: in
\* every state, contract # null implies isConnected.
C26_ContractOnlyConnected ==
  contract # NullContract => isConnected

\* C27: once the service is disconnected, with signer and contract cleared
\* and no handler registered, signer and contract stay cleared in every step
\* in which no connectWallet starts or goes on, a handler of an earlier
\* account change that resumes included.
C27_ClearedUntilConnect ==
  [][(/\ ~isConnected /\ listeners = 0
      /\ signer = ZeroAddr /\ contract = NullContract
      /\ connecting.pc \notin {"accounts", "signer", "network"}
      /\ connecting' = connecting)
     => /\ signer' = ZeroAddr
        /\ contract' = NullContract]_vars

\* C28: when a connectWallet that was started with no handler registered
\* fails, at whatever step, the service is not connected afterwards, holds
\* no account and has no handler registered.
C28_FailedConnectDisconnected ==
  [][(/\ connecting.pc # "failed" /\ connecting'.pc = "failed"
      /\ listeners = 0)
     => /\ ~isConnected'
        /\ currentAccount' = ZeroAddr
        /\ listeners' = 0]_vars

\* r is the whole number nearest to the hundredfold of c thousandths, a
\* half going up
NearestPercent(r, c) ==
  /\ 2 * (r * OracleUnit - 100 * c) <= OracleUnit
  /\ 2 * (r * OracleUnit - 100 * c) > -OracleUnit

\* C29: for a detection result with a confidence of [0, 1], the transaction
\* a form sends carries isAuthentic = not isAiGenerated and, as confidence,
\* the whole number of 0..100 nearest to confidence * 100; the estimate is
\* asked for the same values; and neither call fails on the range of the
\* confidence.
C29_OracleToLedger ==
  [][/\ \A f \in Slots :
          (CallStarts(f) /\ contract.kind = "live")
          => /\ calls'[f].isAuthentic = ~detection.isAiGenerated
             /\ calls'[f].confidence * OracleUnit
                  = detection.confidence * 100 * ConfUnit
             /\ \A tx \in mempool' \ mempool :
                  /\ tx.isAuthentic = ~detection.isAiGenerated
                  /\ tx.confidence \in 0..MaxConfidence
                  /\ NearestPercent(tx.confidence, detection.confidence)
     /\ (EstimateStarts /\ contract.kind = "live")
          => estimate'.confidence * OracleUnit
               = detection.confidence * 100 * ConfUnit
     /\ \A f \in Slots :
          calls'[f].error \notin {RevertConfidence, ErrInvalidArgument}
     /\ estimate'.error \notin {RevertConfidence, ErrInvalidArgument}]_vars

\* a detection with confidence 1 was stored as not authentic with
\* confidence 100, and one with 0.925 is on its way with 93
C29_Witness ==
  /\ \E h \in Digest :
       /\ records[h].exists
       /\ records[h].confidence = MaxConfidence
       /\ ~records[h].isAuthentic
  /\ detection = Detection(FALSE, 925)
  /\ \E tx \in mempool : tx.confidence = 93 /\ tx.isAuthentic

\* C30: when a lookup is answered with no record, the result card shows
\* "No Blockchain Record" and the verify form "Certificate Not Found";
\* neither shows the outcome of a failed query.
C30_AbsentIsNoRecord ==
  [][(LookupAnswered /\ lookup'.error = "none" /\ ~lookup'.record.exists)
     => /\ verifyOnBlockchain(Returned(lookup')) = "No Blockchain Record"
        /\ handleVerify(Returned(lookup'), provider')
             = "Certificate Not Found"]_vars

====
